---------------------------- MODULE Spec2Model ----------------------------
(***************************************************************************)
(* A model of mssql_mcp_server.py: the resolution of the backend and of    *)
(* the connection parameters from the process environment, the result      *)
(* normaliser fetch_columns_and_rows, the grouping of catalog rows, and    *)
(* the life of one call of run_query, describe_table and                   *)
(* describe_indexes_and_foreign_keys from open_connection to the exit of   *)
(* its `with` blocks.                                                       *)
(*                                                                         *)
(* Text the code transforms (lower(), f-strings, join) is a sequence of    *)
(* one-character strings; text it only passes on or raises is a string.    *)
(* An environment variable is a record [set, val]: set is FALSE when the   *)
(* variable is absent from os.environ.                                     *)
(***************************************************************************)
EXTENDS Integers, Sequences, FiniteSets, TLC

VARIABLES
    env,        \* os.environ, os.name and whether `import pyodbc` succeeded
    r_use,      \* what a call of use_pyodbc() returned
    r_args,     \* what a call of build_pymssql_args() returned or raised
    r_str,      \* what a call of build_pyodbc_connection_string() returned or raised
    n_desc,     \* the result description of a statement: one entry per column
    n_tuples,   \* the rows of that statement as the database returned them
    out_keyed,  \* fetch_columns_and_rows on a cursor that yields dictionaries
    out_pos,    \* fetch_columns_and_rows on a cursor that yields positional rows
    g_in,       \* catalog rows to group: the group key and the column of each
    g_idx,      \* the index descriptors grouped from them
    g_out,      \* the outbound foreign keys grouped from them
    g_inb,      \* the inbound foreign keys grouped from them
    op,         \* the tool being called, "none" before the call
    pc,         \* where the call stands
    conn,       \* the connection of the call: its backend, "none" before it is opened
    cursor,     \* the cursor `cur`: as_dict, description, pending rows, rowcount
    q,          \* describe_indexes_and_foreign_keys: the catalog query that is next
    partial,    \* describe_indexes_and_foreign_keys: the locals `indexes` and `outbound`
    log,        \* what the call asked of the database client, in order
    result,     \* what the call returned
    err         \* what the call raised

cfgVars == <<env, r_use, r_args, r_str>>

normVars == <<n_desc, n_tuples, out_keyed, out_pos>>

groupVars == <<g_in, g_idx, g_out, g_inb>>

callVars == <<op, pc, conn, cursor, q, partial, log, result, err>>

vars == <<cfgVars, normVars, groupVars, callVars>>

-----------------------------------------------------------------------------
(* Text *)

Unset == [set |-> FALSE, val |-> <<>>]

Val(s) == [set |-> TRUE, val |-> s]

\* str.lower() on one character
LowerChar(c) ==
    CASE c = "A" -> "a" [] c = "B" -> "b" [] c = "C" -> "c" [] c = "D" -> "d"
      [] c = "E" -> "e" [] c = "F" -> "f" [] c = "G" -> "g" [] c = "H" -> "h"
      [] c = "I" -> "i" [] c = "J" -> "j" [] c = "K" -> "k" [] c = "L" -> "l"
      [] c = "M" -> "m" [] c = "N" -> "n" [] c = "O" -> "o" [] c = "P" -> "p"
      [] c = "Q" -> "q" [] c = "R" -> "r" [] c = "S" -> "s" [] c = "T" -> "t"
      [] c = "U" -> "u" [] c = "V" -> "v" [] c = "W" -> "w" [] c = "X" -> "x"
      [] c = "Y" -> "y" [] c = "Z" -> "z" [] OTHER -> c

\* str.lower()
Lower(s) == [i \in 1..Len(s) |-> LowerChar(s[i])]

\* str(value): the text of a set variable, "None" for an absent one
Str(value) == IF value.set THEN value.val ELSE <<"N", "o", "n", "e">>

\* os.environ.get(name, default)
EnvGet(value, default) == IF value.set THEN value.val ELSE default

\* `not value` for the result of os.environ.get(name): None or ""
Falsy(value) == ~value.set \/ value.val = <<>>

\* sep.join(parts)
RECURSIVE Join(_, _)
Join(parts, sep) ==
    IF parts = <<>> THEN <<>>
    ELSE IF Len(parts) = 1 THEN parts[1]
    ELSE parts[1] \o sep \o Join(Tail(parts), sep)

s_sql == <<"s", "q", "l">>

s_windows == <<"w", "i", "n", "d", "o", "w", "s">>

s_trusted == <<"t", "r", "u", "s", "t", "e", "d">>

s_master == <<"m", "a", "s", "t", "e", "r">>

s_yes == <<"y", "e", "s">>

s_default_driver ==
    <<"O", "D", "B", "C", " ", "D", "r", "i", "v", "e", "r", " ", "1", "8", " ",
      "f", "o", "r", " ", "S", "Q", "L", " ", "S", "e", "r", "v", "e", "r">>

s_UID == <<"U", "I", "D", "=">>

s_PWD == <<"P", "W", "D", "=">>

login_timeout == 5

-----------------------------------------------------------------------------
(* Backend selection *)

_flag_enabled(value) ==
    Lower(Str(value)) \in {<<"1">>, <<"t", "r", "u", "e">>, s_yes, <<"o", "n">>}

\* a precedence slip: the force-on flag is looked at before the force-off flag
use_pyodbc_on_first(e) ==
    IF _flag_enabled(e.MSSQL_USE_PYODBC) THEN TRUE
    ELSE IF _flag_enabled(e.MSSQL_USE_PYMSSQL) THEN FALSE
    ELSE e.os_name = "nt"

use_pyodbc(e) ==
    IF _flag_enabled(e.MSSQL_USE_PYMSSQL) THEN FALSE
    ELSE IF _flag_enabled(e.MSSQL_USE_PYODBC) THEN TRUE
    ELSE e.os_name = "nt"

-----------------------------------------------------------------------------
(* Connection parameters.  A builder returns Ok(value) or Raise(kind, msg). *)

Ok(v) == [kind |-> "ok", msg |-> "", val |-> v]

Raise(kind, msg) == [kind |-> kind, msg |-> msg, val |-> <<>>]

NotCalled == [kind |-> "notcalled", msg |-> "", val |-> <<>>]

MsgServer == "MSSQL_SERVER"

MsgAuth == "MSSQL_AUTH must be 'sql' or 'windows'"

MsgCredentials == "MSSQL_USER and MSSQL_PASSWORD are required unless MSSQL_AUTH=windows"

MsgPyodbc == "pyodbc is required on Windows; install the Microsoft ODBC driver and pyodbc."

\* a slip: the credentials are added before the auth mode is looked at
build_pymssql_args_leaky(e) ==
    IF ~e.MSSQL_SERVER.set THEN Raise("KeyError", MsgServer)
    ELSE
      LET auth_mode == Lower(EnvGet(e.MSSQL_AUTH, s_sql))
          args == ("server" :> e.MSSQL_SERVER.val)
                  @@ ("database" :> EnvGet(e.MSSQL_DB, s_master))
                  @@ ("charset" :> "UTF-8")
                  @@ ("login_timeout" :> login_timeout)
                  @@ ("user" :> e.MSSQL_USER)
                  @@ ("password" :> e.MSSQL_PASSWORD)
      IN  IF auth_mode \in {s_windows, s_trusted}
            THEN Ok(("trusted" :> TRUE) @@ args)
          ELSE IF auth_mode # s_sql
            THEN Raise("ValueError", MsgAuth)
          ELSE IF Falsy(e.MSSQL_USER) \/ Falsy(e.MSSQL_PASSWORD)
            THEN Raise("RuntimeError", MsgCredentials)
          ELSE Ok(args)

build_pymssql_args(e) ==
    IF ~e.MSSQL_SERVER.set THEN Raise("KeyError", MsgServer)
    ELSE
      LET server == e.MSSQL_SERVER.val
          database == EnvGet(e.MSSQL_DB, s_master)
          auth_mode == Lower(EnvGet(e.MSSQL_AUTH, s_sql))
          args == ("server" :> server)
                  @@ ("database" :> database)
                  @@ ("charset" :> "UTF-8")
                  @@ ("login_timeout" :> login_timeout)
      IN  IF auth_mode \in {s_windows, s_trusted}
            THEN Ok(("trusted" :> TRUE) @@ args)
          ELSE IF auth_mode # s_sql
            THEN Raise("ValueError", MsgAuth)
          ELSE IF Falsy(e.MSSQL_USER) \/ Falsy(e.MSSQL_PASSWORD)
            THEN Raise("RuntimeError", MsgCredentials)
          ELSE Ok(("user" :> e.MSSQL_USER.val)
                  @@ ("password" :> e.MSSQL_PASSWORD.val) @@ args)

\* a slip: every mode that is not windows or trusted is taken for sql
build_pyodbc_connection_string_else_sql(e) ==
    IF ~e.pyodbc_module THEN Raise("RuntimeError", MsgPyodbc)
    ELSE IF ~e.MSSQL_SERVER.set THEN Raise("KeyError", MsgServer)
    ELSE
      LET auth_mode == Lower(EnvGet(e.MSSQL_AUTH, s_sql))
          parts == << <<"D", "R", "I", "V", "E", "R", "=", "{">>
                        \o EnvGet(e.MSSQL_DRIVER, s_default_driver) \o <<"}">>,
                      <<"S", "E", "R", "V", "E", "R", "=">> \o e.MSSQL_SERVER.val,
                      <<"D", "A", "T", "A", "B", "A", "S", "E", "=">>
                        \o EnvGet(e.MSSQL_DB, s_master) >>
      IN  IF auth_mode \in {s_windows, s_trusted}
            THEN Ok(Join(parts, <<";">>))
          ELSE IF Falsy(e.MSSQL_USER) \/ Falsy(e.MSSQL_PASSWORD)
            THEN Raise("RuntimeError", MsgCredentials)
          ELSE Ok(Join(parts \o <<s_UID \o e.MSSQL_USER.val,
                                  s_PWD \o e.MSSQL_PASSWORD.val>>, <<";">>))

build_pyodbc_connection_string(e) ==
    IF ~e.pyodbc_module THEN Raise("RuntimeError", MsgPyodbc)
    ELSE IF ~e.MSSQL_SERVER.set THEN Raise("KeyError", MsgServer)
    ELSE
      LET port == e.MSSQL_PORT
          database == EnvGet(e.MSSQL_DB, s_master)
          auth_mode == Lower(EnvGet(e.MSSQL_AUTH, s_sql))
          driver == EnvGet(e.MSSQL_DRIVER, s_default_driver)
          server == IF ~Falsy(port)
                      THEN e.MSSQL_SERVER.val \o <<",">> \o port.val
                      ELSE e.MSSQL_SERVER.val
          parts == << <<"D", "R", "I", "V", "E", "R", "=", "{">> \o driver \o <<"}">>,
                      <<"S", "E", "R", "V", "E", "R", "=">> \o server,
                      <<"D", "A", "T", "A", "B", "A", "S", "E", "=">> \o database >>
          encrypt == EnvGet(e.MSSQL_ENCRYPT, s_yes)
          trust_cert == EnvGet(e.MSSQL_TRUST_CERT, s_yes)
          tail == << <<"E", "n", "c", "r", "y", "p", "t", "=">> \o encrypt,
                     <<"T", "r", "u", "s", "t", "S", "e", "r", "v", "e", "r",
                       "C", "e", "r", "t", "i", "f", "i", "c", "a", "t", "e", "=">>
                       \o trust_cert >>
      IN  IF auth_mode \in {s_windows, s_trusted}
            THEN Ok(Join(parts
                         \o << <<"T", "r", "u", "s", "t", "e", "d", "_",
                                 "C", "o", "n", "n", "e", "c", "t", "i", "o", "n",
                                 "=", "y", "e", "s">> >>
                         \o tail, <<";">>))
          ELSE IF auth_mode = s_sql
            THEN IF Falsy(e.MSSQL_USER) \/ Falsy(e.MSSQL_PASSWORD)
                   THEN Raise("RuntimeError", MsgCredentials)
                   ELSE Ok(Join(parts
                                \o <<s_UID \o e.MSSQL_USER.val,
                                     s_PWD \o e.MSSQL_PASSWORD.val>>
                                \o tail, <<";">>))
          ELSE Raise("ValueError", MsgAuth)

-----------------------------------------------------------------------------
(* The environments the resolver is run in *)

FlagVals == {Unset, Val(<<"1">>), Val(<<"O", "n">>), Val(<<"0">>)}

AuthVals ==
    {Unset, Val(s_sql), Val(<<"S", "Q", "L">>), Val(s_windows),
     Val(<<"T", "r", "u", "s", "t", "e", "d">>),
     Val(<<"k", "e", "r", "b", "e", "r", "o", "s">>), Val(<<>>)}

UserVals == {Unset, Val(<<>>), Val(<<"s", "a">>)}

PasswordVals == {Unset, Val(<<>>), Val(<<"p", "w">>)}

ServerVals == {Unset, Val(<<"d", "b", "1">>)}

PortVals == {Unset, Val(<<"1", "4", "3", "3">>)}

DbVals == {Unset, Val(<<"a", "p", "p">>)}

Envs ==
    [MSSQL_USE_PYMSSQL : FlagVals, MSSQL_USE_PYODBC : FlagVals,
     os_name : {"nt", "posix"}, pyodbc_module : BOOLEAN,
     MSSQL_SERVER : ServerVals, MSSQL_PORT : PortVals, MSSQL_DB : DbVals,
     MSSQL_AUTH : AuthVals, MSSQL_USER : UserVals, MSSQL_PASSWORD : PasswordVals,
     MSSQL_DRIVER : {Unset}, MSSQL_ENCRYPT : {Unset}, MSSQL_TRUST_CERT : {Unset}]

\* nothing set, on a platform other than Windows, with pyodbc installed
BareEnv ==
    [MSSQL_USE_PYMSSQL |-> Unset, MSSQL_USE_PYODBC |-> Unset,
     os_name |-> "posix", pyodbc_module |-> TRUE,
     MSSQL_SERVER |-> Unset, MSSQL_PORT |-> Unset, MSSQL_DB |-> Unset,
     MSSQL_AUTH |-> Unset, MSSQL_USER |-> Unset, MSSQL_PASSWORD |-> Unset,
     MSSQL_DRIVER |-> Unset, MSSQL_ENCRYPT |-> Unset, MSSQL_TRUST_CERT |-> Unset]

-----------------------------------------------------------------------------
(* Python values.  A dict is the sequence of its <<key, value>> items in      *)
(* insertion order, with distinct keys; a row a cursor yields is tagged with *)
(* what isinstance(row, dict) answers.                                       *)

PyNone == "<None>"

PyDict(items) == [isdict |-> TRUE, data |-> items]

PyTuple(values) == [isdict |-> FALSE, data |-> values]

\* k in d
DictHas(d, k) == \E i \in 1..Len(d) : d[i][1] = k

\* d[k]
DictGet(d, k) == d[CHOOSE i \in 1..Len(d) : d[i][1] = k][2]

\* d[k] = v: a known key keeps its place, a new key goes last
DictSet(d, k, v) ==
    IF DictHas(d, k)
      THEN [i \in 1..Len(d) |-> IF d[i][1] = k THEN <<k, v>> ELSE d[i]]
      ELSE Append(d, <<k, v>>)

\* list(d.keys())
DictKeys(d) == [i \in 1..Len(d) |-> d[i][1]]

\* list(d.values())
DictValues(d) == [i \in 1..Len(d) |-> d[i][2]]

Min(a, b) == IF a < b THEN a ELSE b

\* dict(zip(columns, row)) continued from the items d
RECURSIVE DictZipFrom(_, _, _, _)
DictZipFrom(d, columns, row, i) ==
    IF i > Min(Len(columns), Len(row)) THEN d
    ELSE DictZipFrom(DictSet(d, columns[i], row[i]), columns, row, i + 1)

\* dict(zip(columns, row))
DictZip(columns, row) == DictZipFrom(<<>>, columns, row, 1)

-----------------------------------------------------------------------------
(* The result normaliser.  A cursor after execute: its description (None,   *)
(* or one <<name, type_code>> entry per column) and the rows fetchall()     *)
(* will yield.                                                              *)

\* [col[0] for col in cur.description]
DescriptionNames(description) == [i \in 1..Len(description) |-> description[i][1]]

\* fetchall() of a pymssql cursor opened with as_dict=True: one dict per row,
\* keyed by column name
pymssql_fetchall(description, tuples) ==
    [i \in 1..Len(tuples) |-> PyDict(DictZip(DescriptionNames(description), tuples[i]))]

\* fetchall() of a pyodbc cursor: positional rows
pyodbc_fetchall(description, tuples) ==
    [i \in 1..Len(tuples) |-> PyTuple(tuples[i])]

\* a slip: the positional rows are returned as they came, never keyed
fetch_columns_and_rows_unkeyed(cur) ==
    IF cur.rows = <<>> THEN [columns |-> <<>>, rows |-> <<>>]
    ELSE IF cur.rows[1].isdict
      THEN [columns |-> DictKeys(cur.rows[1].data), rows |-> cur.rows]
    ELSE [columns |-> DescriptionNames(cur.description), rows |-> cur.rows]

\* a variant that names the columns of an empty positional result
fetch_columns_and_rows_described(cur) ==
    IF cur.rows = <<>>
      THEN [columns |-> IF cur.as_dict THEN <<>> ELSE DescriptionNames(cur.description),
            rows |-> <<>>]
    ELSE IF cur.rows[1].isdict
      THEN [columns |-> DictKeys(cur.rows[1].data), rows |-> cur.rows]
    ELSE LET columns == DescriptionNames(cur.description)
         IN  [columns |-> columns,
              rows |-> [i \in 1..Len(cur.rows) |->
                          PyDict(DictZip(columns, cur.rows[i].data))]]

fetch_columns_and_rows(cur) ==
    LET rows == cur.rows
    IN  IF rows = <<>> THEN [columns |-> <<>>, rows |-> <<>>]
        ELSE LET first == rows[1]
             IN  IF first.isdict
                   THEN [columns |-> DictKeys(first.data), rows |-> rows]
                   ELSE LET columns == DescriptionNames(cur.description)
                        IN  [columns |-> columns,
                             rows |-> [i \in 1..Len(rows) |->
                                         PyDict(DictZip(columns, rows[i].data))]]

\* the cursor of conn.cursor(as_dict=True) (pymssql) or conn.cursor() (pyodbc)
\* after a statement that returned `tuples` described by `description`
Cursor(as_dict, description, tuples) ==
    [as_dict |-> as_dict, description |-> description, rowcount |-> -1,
     rows |-> IF as_dict THEN pymssql_fetchall(description, tuples)
                         ELSE pyodbc_fetchall(description, tuples)]

MaxCols == 2

MaxRows == 2

ColNames == {"id", "name"}

CellValues == {0, 1}

SeqsUpTo(S, n) == UNION {[1..k -> S] : k \in 0..n}

Descriptions(n) == UNION {[1..k -> {<<c, "int">> : c \in ColNames}] : k \in 1..n}

NotFetched == [done |-> FALSE, columns |-> <<>>, rows |-> <<>>]

Fetched(r) == [done |-> TRUE, columns |-> r.columns, rows |-> r.rows]

-----------------------------------------------------------------------------
(* Grouping of catalog rows *)

\* `value or "(unnamed)"` on a name: None and "" are falsy
OrUnnamed(value) == IF value = PyNone \/ value = "" THEN "(unnamed)" ELSE value

\* bool(value) on a bit column
Bool(value) == value # 0

\* row[key] on a keyed row
Item(row, key) == DictGet(row.data, key)

\* one turn of `for row in index_rows`
index_loop_body(indexes, row) ==
    LET idx_name == OrUnnamed(Item(row, "index_name"))
        seen == IF ~DictHas(indexes, idx_name)
                  THEN DictSet(indexes, idx_name,
                               [name |-> idx_name,
                                type |-> Item(row, "type_desc"),
                                is_primary_key |-> Bool(Item(row, "is_primary_key")),
                                is_unique |-> Bool(Item(row, "is_unique")),
                                columns |-> <<>>])
                  ELSE indexes
        column == [name |-> Item(row, "column_name"),
                   key_ordinal |-> Item(row, "key_ordinal"),
                   is_included |-> Bool(Item(row, "is_included_column"))]
    IN  DictSet(seen, idx_name,
                [DictGet(seen, idx_name) EXCEPT !.columns = Append(@, column)])

RECURSIVE index_loop(_, _)
index_loop(indexes, index_rows) ==
    IF index_rows = <<>> THEN indexes
    ELSE index_loop(index_loop_body(indexes, Head(index_rows)), Tail(index_rows))

\* a slip: a row joins the descriptor before it only when their names agree,
\* and opens a new descriptor otherwise (right for contiguous rows only)
RECURSIVE index_loop_adjacent(_, _)
index_loop_adjacent(found, index_rows) ==
    IF index_rows = <<>> THEN found
    ELSE
      LET row == Head(index_rows)
          idx_name == OrUnnamed(Item(row, "index_name"))
          column == [name |-> Item(row, "column_name"),
                     key_ordinal |-> Item(row, "key_ordinal"),
                     is_included |-> Bool(Item(row, "is_included_column"))]
          n == Len(found)
      IN  IF n > 0 /\ found[n].name = idx_name
            THEN index_loop_adjacent(
                   [found EXCEPT ![n].columns = Append(@, column)], Tail(index_rows))
            ELSE index_loop_adjacent(
                   Append(found, [name |-> idx_name,
                                  type |-> Item(row, "type_desc"),
                                  is_primary_key |-> Bool(Item(row, "is_primary_key")),
                                  is_unique |-> Bool(Item(row, "is_unique")),
                                  columns |-> <<column>>]), Tail(index_rows))

group_indexes_adjacent(index_rows) == index_loop_adjacent(<<>>, index_rows)

\* indexes = {}; for row in index_rows: ...; list(indexes.values())
group_indexes(index_rows) == DictValues(index_loop(<<>>, index_rows))

\* one turn of `for row in fk_outbound_rows`
outbound_loop_body(outbound, row) ==
    LET fk_name == Item(row, "constraint_name")
        seen == IF ~DictHas(outbound, fk_name)
                  THEN DictSet(outbound, fk_name,
                               [name |-> fk_name,
                                target_schema |-> Item(row, "referenced_schema"),
                                target_table |-> Item(row, "referenced_table"),
                                columns |-> <<>>])
                  ELSE outbound
        column == [column |-> Item(row, "column_name"),
                   references |-> Item(row, "referenced_column")]
    IN  DictSet(seen, fk_name,
                [DictGet(seen, fk_name) EXCEPT !.columns = Append(@, column)])

RECURSIVE outbound_loop(_, _)
outbound_loop(outbound, fk_outbound_rows) ==
    IF fk_outbound_rows = <<>> THEN outbound
    ELSE outbound_loop(outbound_loop_body(outbound, Head(fk_outbound_rows)),
                       Tail(fk_outbound_rows))

\* outbound = {}; for row in fk_outbound_rows: ...; list(outbound.values())
group_outbound(fk_outbound_rows) == DictValues(outbound_loop(<<>>, fk_outbound_rows))

\* one turn of `for row in fk_inbound_rows`
inbound_loop_body(inbound, row) ==
    LET fk_name == Item(row, "constraint_name")
        seen == IF ~DictHas(inbound, fk_name)
                  THEN DictSet(inbound, fk_name,
                               [name |-> fk_name,
                                source_schema |-> Item(row, "referencing_schema"),
                                source_table |-> Item(row, "referencing_table"),
                                columns |-> <<>>])
                  ELSE inbound
        column == [column |-> Item(row, "referencing_column"),
                   references |-> Item(row, "referenced_column")]
    IN  DictSet(seen, fk_name,
                [DictGet(seen, fk_name) EXCEPT !.columns = Append(@, column)])

RECURSIVE inbound_loop(_, _)
inbound_loop(inbound, fk_inbound_rows) ==
    IF fk_inbound_rows = <<>> THEN inbound
    ELSE inbound_loop(inbound_loop_body(inbound, Head(fk_inbound_rows)),
                      Tail(fk_inbound_rows))

\* inbound = {}; for row in fk_inbound_rows: ...; list(inbound.values())
group_inbound(fk_inbound_rows) == DictValues(inbound_loop(<<>>, fk_inbound_rows))

(* What the three catalog queries return.  A catalog row is abstracted to   *)
(* its group key and its column; the other columns are fixed.               *)

index_description ==
    << <<"index_name", "str">>, <<"type_desc", "str">>, <<"is_primary_key", "bit">>,
       <<"is_unique", "bit">>, <<"is_included_column", "bit">>,
       <<"key_ordinal", "int">>, <<"column_name", "str">> >>

index_tuples(in) ==
    [i \in 1..Len(in) |-> <<in[i].key, "NONCLUSTERED", 0, 1, 0, i, in[i].col>>]

fk_outbound_description ==
    << <<"constraint_name", "str">>, <<"column_name", "str">>,
       <<"referenced_schema", "str">>, <<"referenced_table", "str">>,
       <<"referenced_column", "str">> >>

fk_outbound_tuples(in) ==
    [i \in 1..Len(in) |-> <<in[i].key, in[i].col, "dbo", "Customers", "id">>]

fk_inbound_description ==
    << <<"constraint_name", "str">>, <<"referencing_schema", "str">>,
       <<"referencing_table", "str">>, <<"referencing_column", "str">>,
       <<"referenced_column", "str">> >>

fk_inbound_tuples(in) ==
    [i \in 1..Len(in) |-> <<in[i].key, "dbo", "Orders", in[i].col, "id">>]

MaxGroupRows == 3

IndexNames == {"A", "B", PyNone}

GroupCols == {"x", "y", "z"}

CatalogRows(names) == [key : names, col : GroupCols]


-----------------------------------------------------------------------------
(* One call of a tool.  The log holds what reached the database client:     *)
(*   "connect"            pymssql.connect / pyodbc.connect was called       *)
(*   "cursor"             conn.cursor(...) returned a cursor                *)
(*   "execute:<query>"    cur.execute was called with that query            *)
(*   "fetchall"           cur.fetchall() returned                           *)
(*   "commit"             conn.commit() of run_query returned               *)
(*   "cursor.close"       the cursor was closed                             *)
(*   "exit:commit"        a commit issued by a __exit__                     *)
(*   "exit:rollback"      a rollback issued by a __exit__                   *)
(*   "close"              the connection was closed by its __exit__         *)
(*   "dealloc:close"      the connection was closed when the interpreter    *)
(*                        freed the connection object                       *)

NoError == [kind |-> "", msg |-> ""]

Error(kind, msg) == [kind |-> kind, msg |-> msg]

NoConn == [backend |-> "none"]

NoCursor == [as_dict |-> FALSE, description |-> <<>>, rows |-> <<>>, rowcount |-> -1]

NoPartial == [indexes |-> <<>>, outbound |-> <<>>]

NoResult == [returned |-> FALSE, value |-> <<>>]

Returned(v) == [returned |-> TRUE, value |-> v]

\* a slip: the connection is requested before the parameters are validated
open_connection_eager(e, reachable) ==
    LET built == IF use_pyodbc(e) THEN build_pyodbc_connection_string(e)
                                  ELSE build_pymssql_args(e)
        backend == IF use_pyodbc(e) THEN "pyodbc" ELSE "pymssql"
    IN  IF built.kind # "ok"
          THEN [log |-> <<"connect">>, err |-> Error(built.kind, built.msg), conn |-> NoConn]
        ELSE IF ~reachable
          THEN [log |-> <<"connect">>, err |-> Error("ConnectionError", backend),
                conn |-> NoConn]
        ELSE [log |-> <<"connect">>, err |-> NoError, conn |-> [backend |-> backend]]

\* open_connection(): `reachable` is whether the server accepts the login
open_connection(e, reachable) ==
    LET built == IF use_pyodbc(e) THEN build_pyodbc_connection_string(e)
                                  ELSE build_pymssql_args(e)
        backend == IF use_pyodbc(e) THEN "pyodbc" ELSE "pymssql"
    IN  IF built.kind # "ok"
          THEN [log |-> <<>>, err |-> Error(built.kind, built.msg), conn |-> NoConn]
        ELSE IF ~reachable
          THEN [log |-> <<"connect">>, err |-> Error("ConnectionError", backend),
                conn |-> NoConn]
        ELSE [log |-> <<"connect">>, err |-> NoError, conn |-> [backend |-> backend]]

\* cursor_args = {} if use_pyodbc() else {"as_dict": True}
cursor_as_dict(e) == ~use_pyodbc(e)

\* leaving `with conn.cursor(...) as cur:`.  pymssql's Cursor.__exit__ closes
\* the cursor; pyodbc's commits when the block ended without an exception.
cursor_exit(backend, raising) ==
    IF backend = "pymssql" THEN <<"cursor.close">>
    ELSE IF raising THEN <<>> ELSE <<"exit:commit">>

\* leaving `with open_connection() as conn:`.  pymssql's Connection.__exit__
\* closes the connection; pyodbc's commits, or rolls back when the block
\* raised, and leaves the connection open.
conn_exit(backend, raising) ==
    IF backend = "pymssql" THEN <<"close">>
    ELSE IF raising THEN <<"exit:rollback">> ELSE <<"exit:commit">>

\* the frame of the call is freed when the call returns: the last reference
\* to a connection its __exit__ left open goes with it
frame_freed(backend) ==
    IF backend = "pyodbc" THEN <<"dealloc:close">> ELSE <<>>

CloseEvents == {"close", "dealloc:close"}

CommitEvents == {"commit", "exit:commit"}

ExecuteEvents ==
    {"execute:sql", "execute:columns", "execute:index",
     "execute:fk_outbound", "execute:fk_inbound"}

\* how many of the events of s are in kinds
Count(s, kinds) == Cardinality({i \in 1..Len(s) : s[i] \in kinds})

MaxFetch == 2

QueryCols == 1

RowCounts == {0, 1}

\* rows of INFORMATION_SCHEMA.COLUMNS: name, type, nullable, character length
column_description ==
    << <<"COLUMN_NAME", "str">>, <<"DATA_TYPE", "str">>, <<"IS_NULLABLE", "str">>,
       <<"CHARACTER_MAXIMUM_LENGTH", "int">> >>

ColumnTuples == {<<"X", "varchar", "YES", 50>>, <<"id", "int", "NO", PyNone>>}

\* the list comprehension describe_table returns
column_descriptors(rows) ==
    [i \in 1..Len(rows) |->
        [column |-> Item(rows[i], "COLUMN_NAME"),
         type |-> Item(rows[i], "DATA_TYPE"),
         nullable |-> Item(rows[i], "IS_NULLABLE") = "YES",
         length |-> Item(rows[i], "CHARACTER_MAXIMUM_LENGTH")]]

CallNames == {"A", "B"}

CallCatalogRows == [key : CallNames, col : {"x"}]

CallEnvs ==
    {e \in [MSSQL_USE_PYMSSQL : {Unset, Val(<<"1">>)},
            MSSQL_USE_PYODBC : {Unset, Val(<<"1">>)},
            os_name : {"nt", "posix"}, pyodbc_module : BOOLEAN,
            MSSQL_SERVER : ServerVals, MSSQL_PORT : {Unset}, MSSQL_DB : {Unset},
            MSSQL_AUTH : {Unset, Val(<<"W", "i", "n", "d", "o", "w", "s">>),
                          Val(<<"k", "e", "r", "b", "e", "r", "o", "s">>)},
            MSSQL_USER : {Unset, Val(<<"s", "a">>)},
            MSSQL_PASSWORD : {Unset, Val(<<"p", "w">>)},
            MSSQL_DRIVER : {Unset}, MSSQL_ENCRYPT : {Unset},
            MSSQL_TRUST_CERT : {Unset}] : TRUE}


-----------------------------------------------------------------------------
(* The state of each part before it is used *)

CfgIdle ==
    /\ r_use = [done |-> FALSE, val |-> FALSE]
    /\ r_args = NotCalled
    /\ r_str = NotCalled

NormIdle ==
    /\ n_desc = <<>>
    /\ n_tuples = <<>>
    /\ out_keyed = NotFetched
    /\ out_pos = NotFetched

NotGrouped == [done |-> FALSE, val |-> <<>>]

Grouped(v) == [done |-> TRUE, val |-> v]

GroupIdle ==
    /\ g_in = <<>>
    /\ g_idx = NotGrouped
    /\ g_out = NotGrouped
    /\ g_inb = NotGrouped

CallIdle ==
    /\ op = "none"
    /\ pc = "idle"
    /\ conn = NoConn
    /\ cursor = NoCursor
    /\ q = 0
    /\ partial = NoPartial
    /\ log = <<>>
    /\ result = NoResult
    /\ err = NoError

-----------------------------------------------------------------------------
(* The resolver on its own: each function is called once on the environment *)

InitCfg ==
    /\ env \in Envs
    /\ CfgIdle
    /\ NormIdle
    /\ GroupIdle
    /\ CallIdle

Call_use_pyodbc ==
    /\ ~r_use.done
    /\ r_use' = [done |-> TRUE, val |-> use_pyodbc(env)]
    /\ UNCHANGED <<env, r_args, r_str, normVars, groupVars, callVars>>

Call_build_pymssql_args ==
    /\ r_args = NotCalled
    /\ r_args' = build_pymssql_args(env)
    /\ UNCHANGED <<env, r_use, r_str, normVars, groupVars, callVars>>

Call_build_pyodbc_connection_string ==
    /\ r_str = NotCalled
    /\ r_str' = build_pyodbc_connection_string(env)
    /\ UNCHANGED <<env, r_use, r_args, normVars, groupVars, callVars>>

NextCfg ==
    \/ Call_use_pyodbc
    \/ Call_build_pymssql_args
    \/ Call_build_pyodbc_connection_string

SpecCfg == InitCfg /\ [][NextCfg]_vars

-----------------------------------------------------------------------------
(* The normaliser on its own: one result set, fetched through a cursor of   *)
(* each backend                                                             *)

InitNorm ==
    /\ env = BareEnv
    /\ CfgIdle
    /\ GroupIdle
    /\ CallIdle
    /\ n_desc \in Descriptions(MaxCols)
    /\ n_tuples \in SeqsUpTo([1..Len(n_desc) -> CellValues], MaxRows)
    /\ out_keyed = NotFetched
    /\ out_pos = NotFetched

FetchKeyed ==
    /\ ~out_keyed.done
    /\ out_keyed' = Fetched(fetch_columns_and_rows(Cursor(TRUE, n_desc, n_tuples)))
    /\ UNCHANGED <<cfgVars, groupVars, callVars, n_desc, n_tuples, out_pos>>

FetchPositional ==
    /\ ~out_pos.done
    /\ out_pos' = Fetched(fetch_columns_and_rows(Cursor(FALSE, n_desc, n_tuples)))
    /\ UNCHANGED <<cfgVars, groupVars, callVars, n_desc, n_tuples, out_keyed>>

NextNorm ==
    \/ FetchKeyed
    \/ FetchPositional

SpecNorm == InitNorm /\ [][NextNorm]_vars

-----------------------------------------------------------------------------
(* The grouping on its own: the same catalog rows, fetched through a cursor *)
(* of either backend, grouped as indexes, as outbound and as inbound keys   *)

InitGroup ==
    /\ env = BareEnv
    /\ CfgIdle
    /\ NormIdle
    /\ CallIdle
    /\ g_in \in SeqsUpTo(CatalogRows(IndexNames), MaxGroupRows)
    /\ g_idx = NotGrouped
    /\ g_out = NotGrouped
    /\ g_inb = NotGrouped

GroupIndexes ==
    /\ ~g_idx.done
    /\ \E as_dict \in BOOLEAN :
         g_idx' = Grouped(group_indexes(
                    fetch_columns_and_rows(
                      Cursor(as_dict, index_description, index_tuples(g_in))).rows))
    /\ UNCHANGED <<cfgVars, normVars, callVars, g_in, g_out, g_inb>>

GroupOutbound ==
    /\ ~g_out.done
    /\ \E as_dict \in BOOLEAN :
         g_out' = Grouped(group_outbound(
                    fetch_columns_and_rows(
                      Cursor(as_dict, fk_outbound_description,
                             fk_outbound_tuples(g_in))).rows))
    /\ UNCHANGED <<cfgVars, normVars, callVars, g_in, g_idx, g_inb>>

GroupInbound ==
    /\ ~g_inb.done
    /\ \E as_dict \in BOOLEAN :
         g_inb' = Grouped(group_inbound(
                    fetch_columns_and_rows(
                      Cursor(as_dict, fk_inbound_description,
                             fk_inbound_tuples(g_in))).rows))
    /\ UNCHANGED <<cfgVars, normVars, callVars, g_in, g_idx, g_out>>

NextGroup ==
    \/ GroupIndexes
    \/ GroupOutbound
    \/ GroupInbound

SpecGroup == InitGroup /\ [][NextGroup]_vars

-----------------------------------------------------------------------------
(* One call of one tool, in the environment the process was started in *)

Init ==
    /\ env \in CallEnvs
    /\ CfgIdle
    /\ NormIdle
    /\ GroupIdle
    /\ CallIdle

Idle == <<cfgVars, normVars, groupVars>>

\* the host calls run_query(ctx, sql)
Call_run_query ==
    /\ pc = "idle"
    /\ op' = "run_query"
    /\ pc' = "open_connection"
    /\ UNCHANGED <<Idle, conn, cursor, q, partial, log, result, err>>

\* the host calls describe_table(ctx, schema, table_name)
Call_describe_table ==
    /\ pc = "idle"
    /\ op' = "describe_table"
    /\ pc' = "open_connection"
    /\ UNCHANGED <<Idle, conn, cursor, q, partial, log, result, err>>

\* the host calls describe_indexes_and_foreign_keys(ctx, schema, table_name)
Call_describe_indexes_and_foreign_keys ==
    /\ pc = "idle"
    /\ op' = "describe_indexes_and_foreign_keys"
    /\ pc' = "open_connection"
    /\ UNCHANGED <<Idle, conn, cursor, q, partial, log, result, err>>

\* the call raises from inside `with open_connection() as conn:`, and from
\* inside `with conn.cursor(...) as cur:` when in_cursor
RaiseFrom(in_cursor, event, kind) ==
    /\ pc' = "raised"
    /\ err' = Error(kind, event)
    /\ log' = log \o (IF in_cursor THEN cursor_exit(conn.backend, TRUE) ELSE <<>>)
                  \o conn_exit(conn.backend, TRUE)
    /\ UNCHANGED <<op, conn, cursor, q, partial, result>>

\* the call returns value after the events `done`, leaving both `with` blocks
ReturnFrom(done, value) ==
    /\ pc' = "returned"
    /\ result' = Returned(value)
    /\ log' = log \o done \o cursor_exit(conn.backend, FALSE)
                  \o conn_exit(conn.backend, FALSE) \o frame_freed(conn.backend)
    /\ UNCHANGED <<op, conn, cursor, q, partial, err>>

\* with open_connection() as conn:
OpenConnection ==
    /\ pc = "open_connection"
    /\ \E reachable \in BOOLEAN :
         LET opened == open_connection(env, reachable)
         IN  /\ log' = log \o opened.log
             /\ conn' = opened.conn
             /\ err' = opened.err
             /\ pc' = IF opened.err = NoError THEN "cursor" ELSE "raised"
    /\ UNCHANGED <<Idle, op, cursor, q, partial, result>>

\* with conn.cursor(**cursor_args) as cur:
OpenCursor ==
    /\ pc = "cursor"
    /\ \/ /\ pc' = "execute"
          /\ q' = 1
          /\ cursor' = [NoCursor EXCEPT !.as_dict = cursor_as_dict(env)]
          /\ log' = log \o <<"cursor">>
          /\ UNCHANGED <<op, conn, partial, result, err>>
       \/ /\ RaiseFrom(FALSE, "cursor", "DatabaseError")
    /\ UNCHANGED Idle

\* run_query: cur.execute(sql) and the branch on cur.description
Execute_run_query ==
    /\ pc = "execute"
    /\ op = "run_query"
    /\ \/ \E description \in Descriptions(QueryCols) :
          \E tuples \in SeqsUpTo([1..Len(description) -> CellValues], MaxFetch) :
            /\ cursor' = Cursor(cursor.as_dict, description, tuples)
            /\ pc' = "fetch"
            /\ log' = log \o <<"execute:sql">>
            /\ UNCHANGED <<op, conn, q, partial, result, err>>
       \/ \E n \in RowCounts :
            /\ cursor' = [cursor EXCEPT !.description = <<>>, !.rows = <<>>,
                                        !.rowcount = n]
            /\ pc' = "commit"
            /\ log' = log \o <<"execute:sql">>
            /\ UNCHANGED <<op, conn, q, partial, result, err>>
       \/ /\ RaiseFrom(TRUE, "execute:sql", "DatabaseError")
    /\ UNCHANGED Idle

\* run_query: columns, rows = fetch_columns_and_rows(cur); return {...}
Fetch_run_query ==
    /\ pc = "fetch"
    /\ op = "run_query"
    /\ \/ LET got == fetch_columns_and_rows(cursor)
          IN  ReturnFrom(<<"fetchall">>, [columns |-> got.columns, rows |-> got.rows])
       \/ RaiseFrom(TRUE, "fetchall", "DatabaseError")
    /\ UNCHANGED Idle

\* run_query: conn.commit(); return {"rows_affected": cur.rowcount}
Commit_run_query ==
    /\ pc = "commit"
    /\ op = "run_query"
    /\ \/ ReturnFrom(<<"commit">>, [rows_affected |-> cursor.rowcount])
       \/ RaiseFrom(TRUE, "commit", "DatabaseError")
    /\ UNCHANGED Idle

\* describe_table: cur.execute(query, (schema, table_name))
Execute_describe_table ==
    /\ pc = "execute"
    /\ op = "describe_table"
    /\ \/ \E tuples \in SeqsUpTo(ColumnTuples, MaxFetch) :
            /\ cursor' = Cursor(cursor.as_dict, column_description, tuples)
            /\ pc' = "fetch"
            /\ log' = log \o <<"execute:columns">>
            /\ UNCHANGED <<op, conn, q, partial, result, err>>
       \/ /\ RaiseFrom(TRUE, "execute:columns", "DatabaseError")
    /\ UNCHANGED Idle

\* describe_table: _, rows = fetch_columns_and_rows(cur); return [...]
Fetch_describe_table ==
    /\ pc = "fetch"
    /\ op = "describe_table"
    /\ \/ ReturnFrom(<<"fetchall">>, column_descriptors(fetch_columns_and_rows(cursor).rows))
       \/ RaiseFrom(TRUE, "fetchall", "DatabaseError")
    /\ UNCHANGED Idle

\* the query describe_indexes_and_foreign_keys executes as its n-th
catalog_query(n) ==
    IF n = 1 THEN "execute:index"
    ELSE IF n = 2 THEN "execute:fk_outbound" ELSE "execute:fk_inbound"

\* what the n-th catalog query returns for the catalog rows `in`
catalog_cursor(as_dict, n, in) ==
    IF n = 1 THEN Cursor(as_dict, index_description, index_tuples(in))
    ELSE IF n = 2 THEN Cursor(as_dict, fk_outbound_description, fk_outbound_tuples(in))
    ELSE Cursor(as_dict, fk_inbound_description, fk_inbound_tuples(in))

\* describe_indexes_and_foreign_keys: cur.execute(index_query, ...), then
\* cur.execute(fk_outbound_query, ...), then cur.execute(fk_inbound_query, ...)
Execute_catalog ==
    /\ pc = "execute"
    /\ op = "describe_indexes_and_foreign_keys"
    /\ \/ \E in \in SeqsUpTo(CallCatalogRows, MaxFetch) :
            /\ cursor' = catalog_cursor(cursor.as_dict, q, in)
            /\ pc' = "fetch"
            /\ log' = log \o <<catalog_query(q)>>
            /\ UNCHANGED <<op, conn, q, partial, result, err>>
       \/ /\ RaiseFrom(TRUE, catalog_query(q), "DatabaseError")
    /\ UNCHANGED Idle

\* describe_indexes_and_foreign_keys: fetch_columns_and_rows(cur) and the
\* loop that groups its rows; after the third, the return
Fetch_catalog ==
    /\ pc = "fetch"
    /\ op = "describe_indexes_and_foreign_keys"
    /\ \/ LET rows == fetch_columns_and_rows(cursor).rows
          IN  \/ /\ q = 1
                 /\ partial' = [partial EXCEPT !.indexes = group_indexes(rows)]
                 /\ q' = 2
                 /\ pc' = "execute"
                 /\ log' = log \o <<"fetchall">>
                 /\ UNCHANGED <<op, conn, cursor, result, err>>
              \/ /\ q = 2
                 /\ partial' = [partial EXCEPT !.outbound = group_outbound(rows)]
                 /\ q' = 3
                 /\ pc' = "execute"
                 /\ log' = log \o <<"fetchall">>
                 /\ UNCHANGED <<op, conn, cursor, result, err>>
              \/ /\ q = 3
                 /\ ReturnFrom(<<"fetchall">>,
                               [indexes |-> partial.indexes,
                                foreign_keys_outbound |-> partial.outbound,
                                foreign_keys_inbound |-> group_inbound(rows)])
       \/ RaiseFrom(TRUE, "fetchall", "DatabaseError")
    /\ UNCHANGED Idle

\* the host is done with the exception the call raised: the frame it kept
\* alive is freed, and with it a connection its __exit__ left open
DropException ==
    /\ pc = "raised"
    /\ conn.backend = "pyodbc"
    /\ Count(log, CloseEvents) = 0
    /\ log' = log \o frame_freed(conn.backend)
    /\ UNCHANGED <<Idle, op, pc, conn, cursor, q, partial, result, err>>

Next ==
    \/ Call_run_query
    \/ Call_describe_table
    \/ Call_describe_indexes_and_foreign_keys
    \/ OpenConnection
    \/ OpenCursor
    \/ Execute_run_query
    \/ Fetch_run_query
    \/ Commit_run_query
    \/ Execute_describe_table
    \/ Fetch_describe_table
    \/ Execute_catalog
    \/ Fetch_catalog
    \/ DropException

Spec == Init /\ [][Next]_vars

-----------------------------------------------------------------------------
(* Claims about the resolver *)

\* s has sub as a contiguous part
Contains(s, sub) ==
    \E i \in 1..(Len(s) - Len(sub) + 1) : SubSeq(s, i, i + Len(sub) - 1) = sub

AuthMode == Lower(EnvGet(env.MSSQL_AUTH, s_sql))

AuthIsSql == AuthMode = s_sql

AuthIsWindows == AuthMode \in {s_windows, s_trusted}

CredentialsMissing == Falsy(env.MSSQL_USER) \/ Falsy(env.MSSQL_PASSWORD)

ArgsCalled == r_args # NotCalled

StrCalled == r_str # NotCalled

ArgsCarryNoSecret ==
    /\ r_args.kind = "ok"
    /\ "user" \notin DOMAIN r_args.val
    /\ "password" \notin DOMAIN r_args.val
    /\ "trusted" \in DOMAIN r_args.val

StrCarriesNoSecret ==
    /\ r_str.kind = "ok"
    /\ ~Contains(r_str.val, s_UID)
    /\ ~Contains(r_str.val, s_PWD)

\* C3: the force-off flag (MSSQL_USE_PYMSSQL) enabled gives pymssql whatever
\* the rest is; otherwise the force-on flag (MSSQL_USE_PYODBC) enabled gives
\* pyodbc whatever the platform is; otherwise pyodbc exactly on os.name = "nt".
C3_Precedence ==
    r_use.done =>
      /\ _flag_enabled(env.MSSQL_USE_PYMSSQL) => r_use.val = FALSE
      /\ (~_flag_enabled(env.MSSQL_USE_PYMSSQL) /\ _flag_enabled(env.MSSQL_USE_PYODBC))
            => r_use.val = TRUE
      /\ (~_flag_enabled(env.MSSQL_USE_PYMSSQL) /\ ~_flag_enabled(env.MSSQL_USE_PYODBC))
            => r_use.val = (env.os_name = "nt")

\* both flags enabled on the pyodbc platform, and pymssql was chosen
C3_Witness ==
    /\ r_use.done
    /\ env.MSSQL_USE_PYMSSQL = Val(<<"O", "n">>)
    /\ env.MSSQL_USE_PYODBC = Val(<<"1">>)
    /\ env.os_name = "nt"
    /\ r_use.val = FALSE

\* C4 as stated: under sql auth with a missing or empty username or password
\* both builders fail; under windows or trusted auth both builders succeed and
\* the parameters carry neither the username nor the password.
C4_AsStated ==
    /\ (ArgsCalled /\ AuthIsSql /\ CredentialsMissing) => r_args.kind # "ok"
    /\ (StrCalled /\ AuthIsSql /\ CredentialsMissing) => r_str.kind # "ok"
    /\ (ArgsCalled /\ AuthIsWindows) => ArgsCarryNoSecret
    /\ (StrCalled /\ AuthIsWindows) => StrCarriesNoSecret

\* C4 amended: the sql half as stated; under windows or trusted auth
\* build_pymssql_args succeeds whenever MSSQL_SERVER is set, and
\* build_pyodbc_connection_string whenever MSSQL_SERVER is set and pyodbc was
\* imported, with or without credentials, and the parameters carry no secret.
C4_Amended ==
    /\ (ArgsCalled /\ AuthIsSql /\ CredentialsMissing) => r_args.kind # "ok"
    /\ (StrCalled /\ AuthIsSql /\ CredentialsMissing) => r_str.kind # "ok"
    /\ (ArgsCalled /\ AuthIsWindows /\ env.MSSQL_SERVER.set) => ArgsCarryNoSecret
    /\ (StrCalled /\ AuthIsWindows /\ env.MSSQL_SERVER.set /\ env.pyodbc_module)
          => StrCarriesNoSecret
    /\ (ArgsCalled /\ AuthIsWindows /\ ~env.MSSQL_SERVER.set) => r_args.kind = "KeyError"

\* trusted auth in mixed case with both credentials set: both builders succeed
C4_Witness ==
    /\ env.MSSQL_AUTH = Val(<<"T", "r", "u", "s", "t", "e", "d">>)
    /\ env.MSSQL_USER = Val(<<"s", "a">>)
    /\ env.MSSQL_PASSWORD = Val(<<"p", "w">>)
    /\ ArgsCarryNoSecret
    /\ StrCarriesNoSecret

AuthUnrecognized == AuthMode \notin {s_sql, s_windows, s_trusted}

\* C5 as stated: for an unrecognized auth mode both builders fail with the
\* auth-mode error, also when username and password are set.
C5_AsStated ==
    AuthUnrecognized =>
      /\ ArgsCalled => (r_args.kind = "ValueError" /\ r_args.msg = MsgAuth)
      /\ StrCalled => (r_str.kind = "ValueError" /\ r_str.msg = MsgAuth)

\* C5 amended: for an unrecognized auth mode both builders always fail; the
\* failure is the auth-mode error when MSSQL_SERVER is set and, for
\* build_pyodbc_connection_string, pyodbc was imported; before that the
\* missing server (KeyError) or the missing library (RuntimeError) is raised.
C5_Amended ==
    AuthUnrecognized =>
      /\ ArgsCalled => r_args.kind # "ok"
      /\ StrCalled => r_str.kind # "ok"
      /\ (ArgsCalled /\ env.MSSQL_SERVER.set)
            => (r_args.kind = "ValueError" /\ r_args.msg = MsgAuth)
      /\ (StrCalled /\ env.MSSQL_SERVER.set /\ env.pyodbc_module)
            => (r_str.kind = "ValueError" /\ r_str.msg = MsgAuth)
      /\ (ArgsCalled /\ ~env.MSSQL_SERVER.set) => r_args.kind = "KeyError"
      /\ (StrCalled /\ ~env.pyodbc_module) => r_str.msg = MsgPyodbc

\* an unknown mode with both credentials set: both builders raise the auth error
C5_Witness ==
    /\ env.MSSQL_AUTH = Val(<<"k", "e", "r", "b", "e", "r", "o", "s">>)
    /\ env.MSSQL_USER = Val(<<"s", "a">>)
    /\ env.MSSQL_PASSWORD = Val(<<"p", "w">>)
    /\ r_args.msg = MsgAuth
    /\ r_str.msg = MsgAuth


-----------------------------------------------------------------------------
(* Claims about the normaliser *)

DistinctNames == \A i, j \in 1..Len(n_desc) : i # j => n_desc[i][1] # n_desc[j][1]

\* C6 as stated: for the same column names in the same order and the same
\* values, the keyed-row path and the positional-row path of
\* fetch_columns_and_rows return identical columns and identical keyed rows.
C6_AsStated ==
    (out_keyed.done /\ out_pos.done)
      => (out_keyed.columns = out_pos.columns /\ out_keyed.rows = out_pos.rows)

\* C6 amended: the two paths return identical columns and identical keyed
\* rows when the column names of the result are pairwise distinct.
C6_Amended ==
    (out_keyed.done /\ out_pos.done /\ DistinctNames)
      => (out_keyed.columns = out_pos.columns /\ out_keyed.rows = out_pos.rows)

\* two rows of two distinct columns went through both paths
C6_Witness ==
    /\ out_keyed.done /\ out_pos.done /\ DistinctNames
    /\ Len(n_desc) = 2 /\ Len(n_tuples) = 2
    /\ out_pos.columns = <<"id", "name">>
    /\ out_keyed.rows[2] = PyDict(<< <<"id", n_tuples[2][1]>>, <<"name", n_tuples[2][2]>> >>)
    /\ n_tuples[1] # n_tuples[2]

-----------------------------------------------------------------------------
(* Claims about the grouping *)

IndexKeys == [i \in 1..Len(g_in) |-> IF g_in[i].key \in {PyNone, ""}
                                       THEN "(unnamed)" ELSE g_in[i].key]

ConstraintKeys == [i \in 1..Len(g_in) |-> g_in[i].key]

InputCols == [i \in 1..Len(g_in) |-> g_in[i].col]

\* the columns of the rows whose key is k, in arrival order
RECURSIVE ColsFor(_, _, _)
ColsFor(keys, cols, k) ==
    IF keys = <<>> THEN <<>>
    ELSE (IF Head(keys) = k THEN <<Head(cols)>> ELSE <<>>)
         \o ColsFor(Tail(keys), Tail(cols), k)

FirstAt(keys, k) == CHOOSE i \in 1..Len(keys) : keys[i] = k /\ \A j \in 1..(i - 1) : keys[j] # k

\* names and cols are the names of the descriptors and, for each, the columns
\* it lists: one descriptor per key, in first-seen order, with the key's rows
GroupedInOrder(names, cols, keys) ==
    /\ \A i, j \in 1..Len(names) : i # j => names[i] # names[j]
    /\ {names[i] : i \in 1..Len(names)} = {keys[i] : i \in 1..Len(keys)}
    /\ \A i, j \in 1..Len(names) :
         i < j => FirstAt(keys, names[i]) < FirstAt(keys, names[j])
    /\ \A i \in 1..Len(names) : cols[i] = ColsFor(keys, InputCols, names[i])

DescriptorNames(ds) == [i \in 1..Len(ds) |-> ds[i].name]

IndexColumnNames(ds) ==
    [i \in 1..Len(ds) |-> [c \in 1..Len(ds[i].columns) |-> ds[i].columns[c].name]]

KeyColumnNames(ds) ==
    [i \in 1..Len(ds) |-> [c \in 1..Len(ds[i].columns) |-> ds[i].columns[c].column]]

\* C8: for indexes and for both foreign-key directions, every distinct group
\* key yields exactly one descriptor, the descriptors stand in the order in
\* which their keys first occur, and each lists exactly the rows of its key in
\* arrival order, contiguous or not.
C8_Grouping ==
    /\ g_idx.done => GroupedInOrder(DescriptorNames(g_idx.val),
                                    IndexColumnNames(g_idx.val), IndexKeys)
    /\ g_out.done => GroupedInOrder(DescriptorNames(g_out.val),
                                    KeyColumnNames(g_out.val), ConstraintKeys)
    /\ g_inb.done => GroupedInOrder(DescriptorNames(g_inb.val),
                                    KeyColumnNames(g_inb.val), ConstraintKeys)

\* the rows A:x, B:y, A:z were grouped into [A{x,z}, B{y}] three times
C8_Witness ==
    /\ g_in = <<[key |-> "A", col |-> "x"], [key |-> "B", col |-> "y"],
                [key |-> "A", col |-> "z"]>>
    /\ g_idx.done /\ g_out.done /\ g_inb.done
    /\ DescriptorNames(g_idx.val) = <<"A", "B">>
    /\ IndexColumnNames(g_idx.val) = << <<"x", "z">>, <<"y">> >>
    /\ KeyColumnNames(g_out.val) = << <<"x", "z">>, <<"y">> >>
    /\ KeyColumnNames(g_inb.val) = << <<"x", "z">>, <<"y">> >>


-----------------------------------------------------------------------------
(* Claims about a call *)

Ended == pc \in {"returned", "raised"}

Connected == conn.backend # "none"

IsExecute(event) == event \in ExecuteEvents

Executes == SelectSeq(log, IsExecute)

LastExecuteAt ==
    IF Executes = <<>> THEN 0
    ELSE CHOOSE i \in 1..Len(log) : IsExecute(log[i]) /\ \A j \in (i + 1)..Len(log) : ~IsExecute(log[j])

\* C1: in every call in which a connection was opened, the connection has been
\* closed exactly once when the call returns or raises, with either backend.
C1_AsStated == (Ended /\ Connected) => Count(log, CloseEvents) = 1

\* C2: run_query returns {rows_affected} after a commit when the statement
\* left no description, and returns {columns, rows} with no commit issued on
\* the connection, explicit or by a __exit__, when it left one.
C2_AsStated ==
    (op = "run_query" /\ pc = "returned") =>
      /\ cursor.description = <<>>
           => (DOMAIN result.value = {"rows_affected"} /\ Count(log, {"commit"}) = 1)
      /\ cursor.description # <<>>
           => (DOMAIN result.value = {"columns", "rows"} /\ Count(log, CommitEvents) = 0)

CatalogOrder == <<"execute:index", "execute:fk_outbound", "execute:fk_inbound">>

\* C9: describe_indexes_and_foreign_keys executes the index, outbound and
\* inbound queries in that order on one connection, opened once and closed
\* once after the last of them; a failure stops the later queries, the call
\* raises and returns nothing.
C9_AsStated ==
    op = "describe_indexes_and_foreign_keys" =>
      /\ Len(Executes) <= 3
      /\ Executes = SubSeq(CatalogOrder, 1, Len(Executes))
      /\ Count(log, {"connect"}) <= 1
      /\ pc = "raised" => ~result.returned
      /\ pc = "returned" =>
           /\ Executes = CatalogOrder
           /\ DOMAIN result.value = {"indexes", "foreign_keys_outbound", "foreign_keys_inbound"}
      /\ (Ended /\ Connected) =>
           /\ Count(log, CloseEvents) = 1
           /\ \A i \in 1..Len(log) : log[i] \in CloseEvents => i > LastExecuteAt

ConfigFailure ==
    pc = "raised" /\ err.msg \in {MsgServer, MsgAuth, MsgCredentials, MsgPyodbc}

\* C10: a call that ends with a configuration failure (server missing, auth
\* mode unrecognized, credentials missing under sql auth, pyodbc selected but
\* not installed) never asked for a connection and executed no statement.
C10_ConfigBeforeConnect ==
    ConfigFailure =>
      /\ Count(log, {"connect"}) = 0
      /\ Count(log, ExecuteEvents) = 0
      /\ ~Connected

\* describe_table ended with the missing-library failure, pyodbc being selected
C10_Witness ==
    /\ op = "describe_table"
    /\ ConfigFailure
    /\ err.msg = MsgPyodbc
    /\ use_pyodbc(env)
    /\ log = <<>>


=============================================================================
